---- MODULE Spec2Model ----
(***************************************************************************)
(* The counting loop of vrc-counter (src/src/main.rs): the task started    *)
(* by Counter::counter_stream binds a UDP socket, seeds data_len from the  *)
(* store, and then loops: rollover check, recv_from, decode, dispatch.     *)
(* The user interface side appears only as the consumer of the             *)
(* CounterUpdated events (Counter::update).                                *)
(***************************************************************************)
EXTENDS Integers, Sequences, FiniteSets, TLC

(* ------------------------------ bounds --------------------------------- *)

\* Number of recv_from calls that return in one run of the model.
MaxDatagrams == 3

\* Largest count handed to int_to_decimal when the function is checked alone.
MaxNum == 210

(* ------------------------- program constants --------------------------- *)

\* The cycle length written as the literal 200 in the rollover check.
CycleLen == 200

MASK_COUNTER_PARAM == "/avatar/parameters/mask_counter"
MASK_ITERATION_PARAM == "/avatar/parameters/mask_iteration"
AVATAR_CHANGE == "/avatar/change"

(* ------------------------- rust_decimal values ------------------------- *)
\* A Decimal is an integer mantissa m with a scale e: the value m / 10^e.

RECURSIVE Pow10(_)
Pow10(n) == IF n = 0 THEN 1 ELSE 10 * Pow10(n - 1)

RECURSIVE Pow2(_)
Pow2(n) == IF n = 0 THEN 1 ELSE 2 * Pow2(n - 1)

Abs(x) == IF x < 0 THEN -x ELSE x

Max(a, b) == IF a >= b THEN a ELSE b

\* Decimal::new(num, scale)
DecNew(num, scale) == [m |-> num, e |-> scale]

\* Decimal * Decimal: mantissas multiply, scales add.
DecMul(a, b) == [m |-> a.m * b.m, e |-> a.e + b.e]

\* Decimal + Decimal: both operands are brought to the larger scale.
DecAdd(a, b) ==
    LET s == Max(a.e, b.e)
    IN  [m |-> a.m * Pow10(s - a.e) + b.m * Pow10(s - b.e), e |-> s]

\* int_to_decimal with the increment taken twice per unit (a wrong step).
int_to_decimal_step2(num) ==
    DecAdd(DecNew(-10, 1), DecMul(DecNew(num, 0), DecNew(2, 2)))

\* fn int_to_decimal(num: usize) -> Decimal
\*   let output = Decimal::new(num as i64, 0) * dec!(0.01);  dec!(-1.0) + output
int_to_decimal(num) ==
    DecAdd(DecNew(-10, 1), DecMul(DecNew(num, 0), DecNew(1, 2)))

\* Width of an f32 significand.
F32Bits == 24

RECURSIVE NormShift(_, _, _)
\* The least k >= shift for which a * 2^(k - shift) reaches lim.
NormShift(a, lim, shift) ==
    IF a >= lim THEN shift ELSE NormShift(2 * a, lim, shift + 1)

\* The quotient n / den rounded to the nearest integer, ties to even.
RoundHalfEven(n, den) ==
    IF 2 * (n % den) > den \/ (2 * (n % den) = den /\ (n \div den) % 2 = 1)
    THEN (n \div den) + 1
    ELSE n \div den

\* A float from a sign, a rounded significand q and a shift k: a significand
\* rounded up to 2^F32Bits is renormalised.
F32Value(sg, q, k) ==
    IF q = Pow2(F32Bits)
    THEN [m |-> sg * Pow2(F32Bits - 1), x |-> 1 - k]
    ELSE [m |-> sg * q, x |-> -k]

\* The float for the magnitude a / den scaled by 2^k.
F32Scaled(sg, a, den, k) == F32Value(sg, RoundHalfEven(a * Pow2(k), den), k)

\* Decimal::to_f32: the nearest single-precision float, ties to even,
\* as a signed significand m and a binary exponent x (the value m * 2^x).
to_f32(d) ==
    IF d.m = 0
    THEN [m |-> 0, x |-> 0]
    ELSE F32Scaled(IF d.m < 0 THEN -1 ELSE 1, Abs(d.m), Pow10(d.e),
                   NormShift(Abs(d.m), Pow2(F32Bits - 1) * Pow10(d.e), 0))

\* OscMessage { addr, args: vec![OscType::Float(output.to_f32().unwrap())] }
OscFloatMessage(addr, output) == [addr |-> addr, args |-> <<to_f32(output)>>]

(* ------------------------ classification rules ------------------------- *)

Kinds == {"UpPosed", "DownPosed", "UpGrabbed", "DownGrabbed"}

\* Every kind taken for a grab kind (a wrong classification).
GrabKinds_all == {"UpPosed", "DownPosed", "UpGrabbed", "DownGrabbed"}

GrabKinds == {"UpGrabbed", "DownGrabbed"}

UP_POSED == "/avatar/parameters/mask_up_posed"
UP_GRABBED == "/avatar/parameters/mask_up_grabbed"
DOWN_GRABBED == "/avatar/parameters/mask_down_grabbed"
MASK_ANY == "/avatar/parameters/mask"
UNRELATED == "/avatar/parameters/VelocityZ"

\* The addresses a datagram can carry in the model.
Addrs == {UP_POSED, UP_GRABBED, DOWN_GRABBED, MASK_ANY, AVATAR_CHANGE, UNRELATED}

\* A rule is a Mask variant with its regex; the regex is modelled by the set
\* of addresses in which regex.find(addr) finds a match.
Rule(kind, found) == [kind |-> kind, found |-> found]

\* One pattern per kind, no address matched by two rules.
DisjointParams ==
    << Rule("UpPosed", {UP_POSED}),
       Rule("DownPosed", {}),
       Rule("UpGrabbed", {UP_GRABBED}),
       Rule("DownGrabbed", {DOWN_GRABBED}) >>

\* Unanchored patterns: MASK_ANY is found by both grab rules and by a pose
\* rule, and one grab pattern also finds a match in the avatar-change address.
OverlapParams ==
    << Rule("UpGrabbed", {UP_GRABBED, MASK_ANY}),
       Rule("UpPosed", {UP_POSED, MASK_ANY}),
       Rule("DownGrabbed", {DOWN_GRABBED, MASK_ANY, AVATAR_CHANGE}) >>

\* The configurations state.config.avatar_params is drawn from.
Configs == {DisjointParams, OverlapParams}

\* regex.find(addr).is_some()
Found(rule, addr) == addr \in rule.found

(* ------------------------------ datagrams ------------------------------ *)

\* First argument of a decoded message: a boolean, another type, or none.
Args == {"true", "false", "other", "none"}

\* What one recv_from call hands to the loop: an error, a payload that
\* decode_udp rejects, a bundle, or a message.
Packets ==
    { [type |-> t, addr |-> "", arg |-> "none"] :
          t \in {"recv_err", "malformed", "bundle"} }
    \cup
    { [type |-> "message", addr |-> a, arg |-> g] : a \in Addrs, g \in Args }

NoPacket == [type |-> "none", addr |-> "", arg |-> "none"]

\* Number of records in the store when the program starts.
SeedCounts ==
    {0, CycleLen - 1, CycleLen, CycleLen + 5, 2 * CycleLen + 1}

(* -------------------------------- state -------------------------------- *)

VARIABLES
    pc,                \* position of the loop task
    panic,             \* "none", or the call whose failure ended the task
    avatar_params,     \* the configured rule list
    data_len,          \* count within the current cycle
    iteration_amount,  \* completed cycles
    packet,            \* what the last recv_from returned
    idx,               \* position of `for param in &avatar_params`
    db_len,            \* records in the store
    created,           \* per kind, records created by the loop
    attempts,          \* create calls made by the loop
    sent,              \* packets handed to send_to since the last recv_from
    logged,            \* error! lines since the last recv_from
    published,         \* CounterUpdated events accepted by the channel
    chan,              \* events queued in the channel
    parked,            \* the sender waits for its slot to be taken
    mask_counter,      \* the user interface's counter
    received,          \* recv_from calls that have returned
    rx_closed,         \* the receiving side of the event channel is gone
    num,               \* an argument of int_to_decimal taken alone
    output             \* the Decimal int_to_decimal returned for num

vars == << pc, panic, avatar_params, data_len, iteration_amount, packet, idx,
           db_len, created, attempts, sent, logged, published, chan, parked,
           mask_counter, received, rx_closed, num, output >>

\* The value of `output` before int_to_decimal has returned: no Decimal has
\* a negative scale.
NoOutput == [m |-> 0, e |-> -1]

\* Counter::new: mask_counter is the number of records; the stream's task
\* has not run yet.
Init ==
    /\ pc = "bind"
    /\ panic = "none"
    /\ avatar_params \in Configs
    /\ data_len = 0
    /\ iteration_amount = 0
    /\ packet = NoPacket
    /\ idx = 0
    /\ db_len \in SeedCounts
    /\ created = [k \in Kinds |-> 0]
    /\ attempts = 0
    /\ sent = << >>
    /\ logged = << >>
    /\ published = 0
    /\ chan = 0
    /\ parked = FALSE
    /\ mask_counter = db_len
    /\ received = 0
    /\ rx_closed = FALSE
    /\ num = 0
    /\ output = NoOutput

(* ------------------------- pieces of the loop -------------------------- *)

\* The rollover test with a strict comparison (a wrong test).
NeedsRollover_strict(d) == d > CycleLen

\* if data_len >= 200
NeedsRollover(d) == d >= CycleLen

\* The rollover counting one cycle whatever the excess (a wrong step).
RolledIteration_one(i, d) == i + 1

\* iteration_amount += data_len / 200
RolledIteration(i, d) == i + (d \div CycleLen)

\* The rollover taking one cycle off instead of the remainder (a wrong step).
RolledDataLen_minus(d) == d - CycleLen

\* data_len %= 200
RolledDataLen(d) == d % CycleLen

\* The message built for MASK_COUNTER_PARAM from a count.
CounterMessage(d) == OscFloatMessage(MASK_COUNTER_PARAM, int_to_decimal(d))

\* The message built for MASK_ITERATION_PARAM from a number of cycles.
IterationMessage(i) == OscFloatMessage(MASK_ITERATION_PARAM, int_to_decimal(i))

\* The trigger test accepting any boolean first argument (a wrong test).
IsTrigger_any_bool(p) == p.type = "message" /\ p.arg \in {"true", "false"}

\* if let Some(arg) = msg.args.first() && let OscType::Bool(value) = arg && *value
IsTrigger(p) == p.type = "message" /\ p.arg = "true"

\* The avatar-change test without its address comparison (a wrong test).
IsAvatarChange_any_addr(p) == p.type = "message" /\ ~IsTrigger(p)

\* else if msg.addr == "/avatar/change"
IsAvatarChange(p) ==
    p.type = "message" /\ ~IsTrigger(p) /\ p.addr = AVATAR_CHANGE

\* The avatar-change replies with the two counts exchanged (a wrong reply).
AvatarChangeReplies_swapped(d, i) == << CounterMessage(i), IterationMessage(d) >>

\* The two messages of the avatar-change branch, in the order they are sent.
AvatarChangeReplies(d, i) == << CounterMessage(d), IterationMessage(i) >>

\* The grab arm counting two per record (a wrong step).
DataLenAfterGrab_twice(created_ok, d) == IF created_ok THEN d + 2 ELSE d

\* The grab arm counting before the create call's result is known
\* (a wrong order).
DataLenAfterGrab_eager(created_ok, d) == d + 1

\* if let Err(e) = create(..).exec().await { error! } else { data_len += 1; .. }
DataLenAfterGrab(created_ok, d) == IF created_ok THEN d + 1 ELSE d

\* A create call leaving two records (a wrong store).
RecordsAfterCreate_double(n) == n + 2

\* db.mask_counter().create(param.discriminant() as i32, Vec::new()) returning
\* Ok: the store holds one more record.
RecordsAfterCreate(n) == n + 1

\* if let Err(e) = socket.send_to(..).await { error!("{}", e); }
LogSend(log, send_ok) == IF send_ok THEN log ELSE Append(log, "send_to")

\* The loop over the rules left after its first turn (a wrong loop).
AfterRule_first(i) == "check"

\* The position after one turn of `for param in &avatar_params`: the next
\* rule, or the head of the loop once the list is exhausted.
AfterRule(i) == IF i + 1 > Len(avatar_params) THEN "check" ELSE "rules"

(* ------------------------------- actions ------------------------------- *)

\* let socket = UdpSocket::bind("127.0.0.1:9001").await.unwrap();
Bind ==
    /\ pc = "bind"
    /\ \E bind_ok \in BOOLEAN :
         IF bind_ok
         THEN pc' = "seed" /\ panic' = panic
         ELSE pc' = "dead" /\ panic' = "bind"
    /\ UNCHANGED << avatar_params, data_len, iteration_amount, packet, idx,
                    db_len, created, attempts, sent, logged, published, chan,
                    parked, mask_counter, received >>
    /\ UNCHANGED << rx_closed, num, output >>

\* A loop that starts its running count at zero instead of at the number of
\* persisted records.
Seed_from_zero ==
    /\ pc = "seed"
    /\ \E query_ok \in BOOLEAN :
         IF query_ok
         THEN /\ data_len' = 0
              /\ iteration_amount' = 0
              /\ pc' = "check"
              /\ panic' = panic
         ELSE /\ pc' = "dead"
              /\ panic' = "find_many"
              /\ UNCHANGED << data_len, iteration_amount >>
    /\ UNCHANGED << avatar_params, packet, idx, db_len, created, attempts,
                    sent, logged, published, chan, parked, mask_counter,
                    received >>
    /\ UNCHANGED << rx_closed, num, output >>

\* let mut data_len = db.mask_counter().find_many(vec![]).exec().await
\*     .unwrap().len();  let mut iteration_amount = 0;
Seed ==
    /\ pc = "seed"
    /\ \E query_ok \in BOOLEAN :
         IF query_ok
         THEN /\ data_len' = db_len
              /\ iteration_amount' = 0
              /\ pc' = "check"
              /\ panic' = panic
         ELSE /\ pc' = "dead"
              /\ panic' = "find_many"
              /\ UNCHANGED << data_len, iteration_amount >>
    /\ UNCHANGED << avatar_params, packet, idx, db_len, created, attempts,
                    sent, logged, published, chan, parked, mask_counter,
                    received >>
    /\ UNCHANGED << rx_closed, num, output >>

\* The head of the loop: the rollover check, whose send_to ends in
\* unwrap_or_log().
RolloverCheck ==
    /\ pc = "check"
    /\ IF NeedsRollover(data_len)
       THEN /\ iteration_amount' = RolledIteration(iteration_amount, data_len)
            /\ data_len' = RolledDataLen(data_len)
            /\ sent' = Append(sent, IterationMessage(iteration_amount'))
            /\ \E send_ok \in BOOLEAN :
                 IF send_ok
                 THEN pc' = "recv" /\ panic' = panic /\ logged' = logged
                 ELSE /\ pc' = "dead"
                      /\ panic' = "send_to"
                      /\ logged' = Append(logged, "send_to")
       ELSE /\ pc' = "recv"
            /\ UNCHANGED << panic, data_len, iteration_amount, sent, logged >>
    /\ UNCHANGED << avatar_params, packet, idx, db_len, created, attempts,
                    published, chan, parked, mask_counter, received >>
    /\ UNCHANGED << rx_closed, num, output >>

\* match socket.recv_from(&mut buf).await, the decoding of the payload and
\* the dispatch on the packet, up to the first rule of the list.
Receive ==
    /\ pc = "recv"
    /\ received < MaxDatagrams
    /\ received' = received + 1
    /\ \E p \in Packets :
         /\ packet' = p
         /\ CASE p.type = "recv_err" ->
                   /\ logged' = << "recv_from" >>
                   /\ sent' = << >>
                   /\ pc' = "check"
                   /\ UNCHANGED << panic, idx >>
              [] p.type = "malformed" ->
                   /\ logged' = << >>
                   /\ sent' = << >>
                   /\ pc' = "dead"
                   /\ panic' = "decode_udp"
                   /\ UNCHANGED idx
              [] p.type = "bundle" ->
                   /\ logged' = << >>
                   /\ sent' = << >>
                   /\ pc' = "check"
                   /\ UNCHANGED << panic, idx >>
              [] IsTrigger(p) ->
                   /\ logged' = << >>
                   /\ sent' = << >>
                   /\ idx' = 1
                   /\ pc' = AfterRule(0)
                   /\ UNCHANGED panic
              [] IsAvatarChange(p) ->
                   /\ sent' = AvatarChangeReplies(data_len, iteration_amount)
                   /\ \E counter_ok \in BOOLEAN, iteration_ok \in BOOLEAN :
                        logged' = LogSend(LogSend(<< >>, counter_ok),
                                          iteration_ok)
                   /\ pc' = "check"
                   /\ UNCHANGED << panic, idx >>
              [] OTHER ->
                   /\ logged' = << >>
                   /\ sent' = << >>
                   /\ pc' = "check"
                   /\ UNCHANGED << panic, idx >>
    /\ UNCHANGED << avatar_params, data_len, iteration_amount, db_len,
                    created, attempts, published, chan, parked, mask_counter >>
    /\ UNCHANGED << rx_closed, num, output >>

\* One turn of `for param in &avatar_params` for a boolean-true message:
\* the four match arms.  A pose arm creates a record and publishes; a grab
\* arm creates a record, counts it, sends the counter and publishes.
ApplyRule ==
    /\ pc = "rules"
    /\ LET param == avatar_params[idx]
           grab  == param.kind \in GrabKinds
       IN  IF ~Found(param, packet.addr)
           THEN /\ idx' = idx + 1
                /\ pc' = AfterRule(idx)
                /\ UNCHANGED << panic, data_len, db_len, created, attempts,
                                sent, logged, published, chan, parked >>
           ELSE \E created_ok \in BOOLEAN :
                  /\ attempts' = attempts + 1
                  /\ data_len' = IF grab
                                 THEN DataLenAfterGrab(created_ok, data_len)
                                 ELSE data_len
                  /\ IF created_ok
                     THEN /\ db_len' = RecordsAfterCreate(db_len)
                          /\ created' =
                               [created EXCEPT ![param.kind] = @ + 1]
                          /\ IF grab
                             THEN \E send_ok \in BOOLEAN :
                                    /\ sent' = Append(sent,
                                                 CounterMessage(data_len'))
                                    /\ logged' = LogSend(logged, send_ok)
                             ELSE UNCHANGED << sent, logged >>
                          \* tx.send(Event::CounterUpdated).await.unwrap():
                          \* with the receiving side gone the send fails and
                          \* the unwrap ends the task.  Otherwise the sender
                          \* holds no queued event here, so the event is
                          \* accepted; the await then lasts until it is taken.
                          /\ idx' = idx
                          /\ IF rx_closed
                             THEN /\ pc' = "dead"
                                  /\ panic' = "tx.send"
                                  /\ UNCHANGED << published, chan, parked >>
                             ELSE /\ published' = published + 1
                                  /\ chan' = chan + 1
                                  /\ parked' = TRUE
                                  /\ pc' = "flush"
                                  /\ panic' = panic
                     ELSE /\ logged' = Append(logged, "create")
                          /\ idx' = idx + 1
                          /\ pc' = AfterRule(idx)
                          /\ UNCHANGED << panic, db_len, created, sent,
                                          published, chan, parked >>
    /\ UNCHANGED << avatar_params, iteration_amount, packet, mask_counter,
                    received, rx_closed, num, output >>

\* tx.send(Event::CounterUpdated).await returns: with a channel of buffer 0
\* the send completes only once the queued event has been taken.
SendCompletes ==
    /\ pc = "flush"
    /\ ~parked
    /\ idx' = idx + 1
    /\ pc' = AfterRule(idx)
    /\ UNCHANGED << panic, avatar_params, data_len, iteration_amount, packet,
                    db_len, created, attempts, sent, logged, published, chan,
                    parked, mask_counter, received >>
    /\ UNCHANGED << rx_closed, num, output >>

\* A consumer that counts every delivered event twice.
CounterUpdated_twice ==
    /\ chan > 0
    /\ chan' = chan - 1
    /\ parked' = FALSE
    /\ mask_counter' = mask_counter + 2
    /\ UNCHANGED << pc, panic, avatar_params, data_len, iteration_amount,
                    packet, idx, db_len, created, attempts, sent, logged,
                    published, received >>
    /\ UNCHANGED << rx_closed, num, output >>

\* The consumer takes a queued event: Counter::update(Event::CounterUpdated).
CounterUpdated ==
    /\ chan > 0
    /\ chan' = chan - 1
    /\ parked' = FALSE
    /\ mask_counter' = mask_counter + 1
    /\ UNCHANGED << pc, panic, avatar_params, data_len, iteration_amount,
                    packet, idx, db_len, created, attempts, sent, logged,
                    published, received >>
    /\ UNCHANGED << rx_closed, num, output >>

\* The receiving side of the event channel goes away: the channel is closed,
\* queued events are discarded and a waiting sender is released (its pending
\* send then returns Ok).
ReceiverDropped ==
    /\ ~rx_closed
    /\ pc \notin {"bind", "dead"}
    /\ rx_closed' = TRUE
    /\ chan' = 0
    /\ parked' = FALSE
    /\ UNCHANGED << pc, panic, avatar_params, data_len, iteration_amount,
                    packet, idx, db_len, created, attempts, sent, logged,
                    published, mask_counter, received, num, output >>

\* int_to_decimal called on num, alone.
MapperApply ==
    /\ output = NoOutput
    /\ output' = int_to_decimal(num)
    /\ UNCHANGED << pc, panic, avatar_params, data_len, iteration_amount,
                    packet, idx, db_len, created, attempts, sent, logged,
                    published, chan, parked, mask_counter, received,
                    rx_closed, num >>

Next ==
    \/ Bind
    \/ Seed
    \/ RolloverCheck
    \/ Receive
    \/ ApplyRule
    \/ SendCompletes
    \/ CounterUpdated

Spec == Init /\ [][Next]_vars

\* The loop with a consumer that may go away while the loop runs.
NextDetached ==
    \/ Next
    \/ ReceiverDropped

SpecDetached == Init /\ [][NextDetached]_vars

\* int_to_decimal alone, on every count up to MaxNum.
MapperInit ==
    /\ pc = "bind"
    /\ panic = "none"
    /\ avatar_params = DisjointParams
    /\ data_len = 0
    /\ iteration_amount = 0
    /\ packet = NoPacket
    /\ idx = 0
    /\ db_len = 0
    /\ created = [k \in Kinds |-> 0]
    /\ attempts = 0
    /\ sent = << >>
    /\ logged = << >>
    /\ published = 0
    /\ chan = 0
    /\ parked = FALSE
    /\ mask_counter = 0
    /\ received = 0
    /\ rx_closed = FALSE
    /\ num \in 0..MaxNum
    /\ output = NoOutput

MapperNext == MapperApply

MapperSpec == MapperInit /\ [][MapperNext]_vars

TypeOK ==
    /\ pc \in {"bind", "seed", "check", "recv", "rules", "flush", "dead"}
    /\ panic \in {"none", "bind", "find_many", "send_to", "decode_udp",
                  "tx.send"}
    /\ (pc = "dead") <=> (panic # "none")
    /\ data_len \in Nat
    /\ iteration_amount \in Nat
    /\ chan \in 0..1
    /\ parked <=> (chan = 1)
    /\ parked => pc = "flush"
    /\ pc = "rules" => idx \in 1..Len(avatar_params)

(* ------------------------- observations of a step --------------------- *)

\* The rule the loop is about to apply finds a match in the message's
\* address and is of a grab kind.
AtGrabRule ==
    /\ pc = "rules"
    /\ Found(avatar_params[idx], packet.addr)
    /\ avatar_params[idx].kind \in GrabKinds

\* The step made a create call, and the call succeeded / failed.
CreateSucceeded == attempts' = attempts + 1 /\ db_len' = db_len + 1
CreateFailed == attempts' = attempts + 1 /\ db_len' = db_len

\* The step is a recv_from call returning.
Received == received' = received + 1

\* Records created by the loop in grab kinds.
GrabsCreated == created["UpGrabbed"] + created["DownGrabbed"]

Last(s) == s[Len(s)]

(* -------------------------------- claims ------------------------------- *)

\* C1 as stated: in every state of the counting loop after startup seeding,
\* a grab increment or a rollover, data_len is in [0, 200).
C1_DataLenAlwaysBelowCycle ==
    pc \notin {"bind", "seed"} => data_len \in 0..(CycleLen - 1)

\* C1 amended: every rollover check leaves data_len in [0, 200); seeding and
\* grab increments may leave it at 200 or more until that check.
C1_DataLenBelowCycleAfterCheck ==
    [][pc = "check" => data_len' \in 0..(CycleLen - 1)]_vars

\* A rollover check has acted on a count that a seeding and a grab built up.
C1_Witness ==
    /\ pc = "recv"
    /\ iteration_amount >= 1
    /\ GrabsCreated >= 1
    /\ data_len < CycleLen

\* C2: a boolean-true message matching a grab rule whose create succeeds
\* increases data_len by exactly 1, hands exactly one message to the counter
\* address with the mapper value of the new data_len, publishes exactly one
\* notification and leaves iteration_amount unchanged.
C2_GrabSuccess ==
    [][(AtGrabRule /\ CreateSucceeded) =>
          /\ data_len' = data_len + 1
          /\ sent' = Append(sent,
                       [addr |-> MASK_COUNTER_PARAM,
                        args |-> << to_f32(int_to_decimal(data_len')) >>])
          /\ published' = published + 1
          /\ iteration_amount' = iteration_amount]_vars

\* A grab record was created and its notification is in the channel.
C2_Witness ==
    /\ pc = "flush"
    /\ avatar_params[idx].kind \in GrabKinds
    /\ GrabsCreated >= 1
    /\ sent # << >>
    /\ Last(sent).addr = MASK_COUNTER_PARAM
    /\ chan = 1

\* C3: a boolean-true message matching a grab rule whose create fails leaves
\* data_len and iteration_amount unchanged, sends nothing, publishes nothing,
\* and the loop goes on to the next rule or to the head of the loop.
C3_GrabCreateFailure ==
    [][(AtGrabRule /\ CreateFailed) =>
          /\ data_len' = data_len
          /\ iteration_amount' = iteration_amount
          /\ sent' = sent
          /\ published' = published
          /\ chan' = chan
          /\ panic' = "none"
          /\ idx' = idx + 1
          /\ pc' = IF idx < Len(avatar_params) THEN "rules" ELSE "check"]_vars

\* A create call of a grab rule has failed and the loop has moved on.
C3_Witness ==
    /\ pc \in {"rules", "check"}
    /\ idx >= 2
    /\ IsTrigger(packet)
    /\ Found(avatar_params[idx - 1], packet.addr)
    /\ avatar_params[idx - 1].kind \in GrabKinds
    /\ logged # << >>
    /\ Last(logged) = "create"

\* C4: a message whose first argument is boolean false, whatever its address
\* and whichever rules match it, leaves data_len and iteration_amount
\* unchanged and makes no create call: no rule is visited for it.
C4_FalseIgnored ==
    [][(Received /\ packet'.type = "message" /\ packet'.arg = "false") =>
          /\ data_len' = data_len
          /\ iteration_amount' = iteration_amount
          /\ attempts' = attempts
          /\ db_len' = db_len
          /\ pc' = "check"]_vars

\* A boolean-false message at an address that two grab rules match has been
\* handled.
C4_Witness ==
    /\ packet.type = "message"
    /\ packet.arg = "false"
    /\ packet.addr = MASK_ANY
    /\ avatar_params = OverlapParams
    /\ pc = "check"

\* C5: handling the avatar-change message hands the mapper value of the
\* current data_len to the counter address and that of the current
\* iteration_amount to the iteration address, in that order, changes neither
\* count and makes no create call; a second avatar-change message directly
\* after the first produces the same pair again.
C5_AvatarChangeResync ==
    [][(Received /\ IsAvatarChange(packet')) =>
          /\ sent' = << [addr |-> MASK_COUNTER_PARAM,
                         args |-> << to_f32(int_to_decimal(data_len)) >>],
                        [addr |-> MASK_ITERATION_PARAM,
                         args |-> << to_f32(int_to_decimal(iteration_amount)) >> ] >>
          /\ data_len' = data_len
          /\ iteration_amount' = iteration_amount
          /\ attempts' = attempts
          /\ db_len' = db_len
          /\ pc' = "check"
          /\ (IsAvatarChange(packet) => sent' = sent)]_vars

\* An avatar-change message has been handled after an earlier datagram, with
\* both counts away from zero.
C5_Witness ==
    /\ IsAvatarChange(packet)
    /\ pc = "check"
    /\ received >= 2
    /\ data_len > 0
    /\ iteration_amount > 0
    /\ Len(sent) = 2

\* C6: the rollover check, when data_len >= 200, adds data_len div 200 to
\* iteration_amount, reduces data_len to data_len mod 200 and hands exactly
\* one message to the iteration address with the mapper value of the updated
\* iteration_amount; when data_len < 200 it changes and sends nothing.
C6_RolloverCheck ==
    [][pc = "check" =>
          IF data_len >= CycleLen
          THEN /\ iteration_amount' = iteration_amount + (data_len \div CycleLen)
               /\ data_len' = data_len % CycleLen
               /\ sent' = Append(sent,
                            [addr |-> MASK_ITERATION_PARAM,
                             args |-> << to_f32(int_to_decimal(iteration_amount')) >>])
          ELSE UNCHANGED << data_len, iteration_amount, sent >>]_vars

\* The rollover check has turned a seeded data_len of 205 into 5 and one cycle.
C6_Witness ==
    /\ pc = "recv"
    /\ received = 0
    /\ db_len = CycleLen + 5
    /\ data_len = 5
    /\ iteration_amount = 1
    /\ Len(sent) = 1
    /\ sent[1].addr = MASK_ITERATION_PARAM

\* C7: from data_len = 199 a persisted grab makes data_len 200; the rollover
\* check at the head of the loop turns that into data_len = 0 and one more
\* cycle and hands the new iteration value to the iteration address; and no
\* datagram is received before that check, so the next datagram meets the
\* rolled-over state.
C7_RolloverBeforeNextDatagram ==
    [][/\ (AtGrabRule /\ CreateSucceeded /\ data_len = CycleLen - 1)
            => data_len' = CycleLen
       /\ (pc = "check" /\ data_len = CycleLen)
            => /\ data_len' = 0
               /\ iteration_amount' = iteration_amount + 1
               /\ sent' = Append(sent,
                            [addr |-> MASK_ITERATION_PARAM,
                             args |-> << to_f32(int_to_decimal(iteration_amount + 1)) >>])
       /\ (data_len >= CycleLen /\ pc # "check")
            => (data_len' >= data_len /\ pc' \in {"rules", "flush", "check"})
       /\ Received => (pc = "recv" /\ data_len < CycleLen)]_vars

\* Seeded with 199, one grab was persisted, the check rolled over, and an
\* avatar-change message was then answered from the rolled-over state.
C7_Witness ==
    /\ db_len = CycleLen
    /\ GrabsCreated = 1
    /\ attempts = 1
    /\ IsAvatarChange(packet)
    /\ data_len = 0
    /\ iteration_amount = 1
    /\ sent = << CounterMessage(0), IterationMessage(1) >>

\* C8 as stated: a datagram whose payload fails to decode is dropped: the
\* counts are unchanged, nothing is created or sent, and the loop returns to
\* its head to receive the next datagram.
C8_MalformedDropped ==
    [][(Received /\ packet'.type = "malformed") =>
          /\ pc' = "check"
          /\ panic' = "none"
          /\ data_len' = data_len
          /\ iteration_amount' = iteration_amount
          /\ attempts' = attempts
          /\ sent' = << >>]_vars

\* C9 as stated: after a successful bind no failure of recv_from or of a
\* send_to ends the loop.
C9_TransportFailureSurvived ==
    panic \notin {"recv_from", "send_to"}

\* C10 as stated: publishing a notification does not make the loop wait for
\* the consumer: once the event is handed to the channel the loop can go on,
\* whether or not the consumer takes it.
C10_PublishDoesNotBlock ==
    pc = "flush" => ENABLED SendCompletes

\* C11 as stated: when the consumer side of the notification channel is
\* gone, a notification that is not accepted does not end the loop.
C11_UnacceptedNotificationSurvived ==
    panic # "tx.send"

\* The rule the loop is about to apply finds a match in the message's
\* address and is of a pose kind.
AtPoseRule ==
    /\ pc = "rules"
    /\ Found(avatar_params[idx], packet.addr)
    /\ avatar_params[idx].kind \in {"UpPosed", "DownPosed"}

\* C12: a boolean-true message matching a pose rule makes one create call for
\* that kind; on success one record of that kind is added and exactly one
\* notification is published, on failure neither; either way data_len and
\* iteration_amount are unchanged and nothing is sent.
C12_PoseEvent ==
    [][AtPoseRule =>
          /\ attempts' = attempts + 1
          /\ data_len' = data_len
          /\ iteration_amount' = iteration_amount
          /\ sent' = sent
          /\ \/ /\ db_len' = db_len + 1
                /\ created' = [created EXCEPT
                                 ![avatar_params[idx].kind] = @ + 1]
                /\ published' = published + 1
             \/ /\ db_len' = db_len
                /\ created' = created
                /\ published' = published]_vars

\* A pose record was created and its notification is in the channel, and an
\* earlier create call had failed.
C12_Witness ==
    /\ pc = "flush"
    /\ avatar_params[idx].kind = "UpPosed"
    /\ created["UpPosed"] >= 1
    /\ chan = 1
    /\ attempts > published

\* Indices of the grab rules that find a match in the current address.
GrabMatches ==
    { j \in 1..Len(avatar_params) :
        /\ Found(avatar_params[j], packet.addr)
        /\ avatar_params[j].kind \in {"UpGrabbed", "DownGrabbed"} }

\* Indices of all rules that find a match in the current address.
AllMatches ==
    { j \in 1..Len(avatar_params) : Found(avatar_params[j], packet.addr) }

\* No create call failed since the last recv_from.
NoCreateFailure == \A i \in 1..Len(logged) : logged[i] # "create"

TotalCreated ==
    created["UpPosed"] + created["DownPosed"]
      + created["UpGrabbed"] + created["DownGrabbed"]

\* The rules are visited in configured order from the first to the last, and
\* every visited rule that matches makes a create call.
AllRulesVisited ==
    [][/\ (Received /\ IsTrigger(packet') /\ Len(avatar_params) > 0)
            => (pc' = "rules" /\ idx' = 1)
       /\ pc = "rules"
            => /\ attempts' = attempts
                     + (IF Found(avatar_params[idx], packet.addr) THEN 1 ELSE 0)
               /\ IF pc' = "flush" THEN idx' = idx ELSE idx' = idx + 1
       /\ (pc = "flush" /\ pc' # "flush") => idx' = idx + 1
       /\ (pc \in {"rules", "flush"} /\ pc' = "check")
            => idx = Len(avatar_params)]_vars

\* With k matching grab rules whose creates all succeed, the datagram is
\* answered by k counter messages, for data_len - k + 1 up to data_len; for
\* the first datagram the records, create calls and notifications can be
\* counted as well.
AllMatchesApplied ==
    (pc = "check" /\ IsTrigger(packet) /\ NoCreateFailure) =>
        LET k == Cardinality(GrabMatches)
        IN  /\ Len(sent) = k
            /\ \A j \in 1..k :
                 sent[j] = [addr |-> MASK_COUNTER_PARAM,
                            args |-> << to_f32(int_to_decimal(data_len - k + j)) >>]
            /\ received = 1 =>
                 /\ GrabsCreated = k
                 /\ attempts = Cardinality(AllMatches)
                 /\ TotalCreated = Cardinality(AllMatches)
                 /\ published = Cardinality(AllMatches)

\* C13: for a boolean-true message every configured rule whose pattern
\* matches the address is applied, in configured order and not only the
\* first: k matching grab rules whose creates succeed give k records, k
\* counter messages, k notifications and data_len grown by k.
C13_EveryMatchingRule ==
    AllRulesVisited /\ []AllMatchesApplied

\* One datagram matched by two grab rules and a pose rule has been handled
\* with every create succeeding.
C13_Witness ==
    /\ pc = "check"
    /\ received = 1
    /\ IsTrigger(packet)
    /\ packet.addr = MASK_ANY
    /\ avatar_params = OverlapParams
    /\ Len(sent) = 2
    /\ published = 3
    /\ created["UpPosed"] = 1

\* C14: once seeded, iteration_amount * 200 + data_len equals the total
\* seeded at startup plus the grab records created since; rollovers keep the
\* sum, and nothing else moves it.
C14_CumulativeTotal ==
    (pc \notin {"bind", "seed"} /\ panic \notin {"bind", "find_many"}) =>
        iteration_amount * CycleLen + data_len
            = (db_len - TotalCreated) + GrabsCreated

\* Two cycles have been rolled over from the seeded total, a grab and a pose
\* record were created, and a create call failed.
C14_Witness ==
    /\ pc = "recv"
    /\ iteration_amount = 2
    /\ GrabsCreated >= 1
    /\ created["UpPosed"] >= 1
    /\ attempts > TotalCreated

\* A Decimal of scale at most 2 in hundredths.
Hundredths(d) == d.m * Pow10(2 - d.e)

\* C15: int_to_decimal(n) is exactly -1.0 + n * 0.01, in hundredths n - 100,
\* for every n: -1.0 at 0, 1.0 at 200, strictly increasing, and above 1.0
\* beyond 200 with no clamping.
C15_MapperExact ==
    output # NoOutput =>
        /\ output.e <= 2
        /\ Hundredths(output) = num - 100
        /\ (num = 0 => Hundredths(output) = -100)
        /\ (num = CycleLen => Hundredths(output) = 100)
        /\ (num > CycleLen => Hundredths(output) > 100)
        /\ Hundredths(output) < Hundredths(int_to_decimal(num + 1))

\* int_to_decimal has returned 1.01 for 201.
C15_Witness ==
    /\ num = CycleLen + 1
    /\ output # NoOutput
    /\ Hundredths(output) = 101

\* A bundle, or a message that is neither a boolean-true trigger nor at the
\* avatar-change address.
Ignorable(p) ==
    \/ p.type = "bundle"
    \/ (p.type = "message" /\ p.arg # "true" /\ p.addr # AVATAR_CHANGE)

\* C16: a bundle, and a message that is neither a boolean-true trigger nor
\* at the avatar-change address, is ignored: no count changes, no create
\* call, nothing sent, nothing published, and the loop returns to its head.
C16_OthersIgnored ==
    [][(Received /\ Ignorable(packet')) =>
          /\ data_len' = data_len
          /\ iteration_amount' = iteration_amount
          /\ attempts' = attempts
          /\ db_len' = db_len
          /\ sent' = << >>
          /\ published' = published
          /\ panic' = "none"
          /\ pc' = "check"]_vars

\* A message with a non-boolean first argument, at an address that three
\* rules match, has been ignored.
C16_Witness ==
    /\ packet.type = "message"
    /\ packet.arg = "other"
    /\ packet.addr = MASK_ANY
    /\ avatar_params = OverlapParams
    /\ pc = "check"
    /\ sent = << >>

\* C17 as stated: every message at the avatar-change address is answered by
\* the counter message and the iteration message of the current state,
\* whatever its arguments.
C17_AvatarChangeAnyArguments ==
    [][(Received /\ packet'.type = "message" /\ packet'.addr = AVATAR_CHANGE) =>
          sent' = << [addr |-> MASK_COUNTER_PARAM,
                      args |-> << to_f32(int_to_decimal(data_len)) >>],
                     [addr |-> MASK_ITERATION_PARAM,
                      args |-> << to_f32(int_to_decimal(iteration_amount)) >>] >>]_vars

\* C18: each matching rule makes exactly one create call, a failed call is
\* not repeated (the loop moves to the next rule), a successful call adds
\* exactly one record of the rule's kind, no other step calls create or
\* touches the store, and the record count never decreases.
C18_OneAttemptPerMatch ==
    [][/\ (pc = "rules" /\ Found(avatar_params[idx], packet.addr))
            => /\ attempts' = attempts + 1
               /\ \/ /\ db_len' = db_len
                     /\ created' = created
                     /\ idx' = idx + 1
                  \/ /\ db_len' = db_len + 1
                     /\ created' = [created EXCEPT
                                      ![avatar_params[idx].kind] = @ + 1]
       /\ ~(pc = "rules" /\ Found(avatar_params[idx], packet.addr))
            => /\ attempts' = attempts
               /\ db_len' = db_len
               /\ created' = created
       /\ (pc \in {"rules", "flush"} /\ pc' \in {"rules", "flush"})
            => idx' >= idx
       /\ db_len' >= db_len]_vars

\* A create call has failed, the loop has moved on, and a later create call
\* has succeeded.
C18_Witness ==
    /\ pc = "flush"
    /\ logged # << >>
    /\ logged[1] = "create"
    /\ attempts >= 2
    /\ TotalCreated >= 1
    /\ idx >= 2

\* A float of magnitude at most 1.
F32WithinOne(f) ==
    \/ f.m = 0
    \/ (f.x <= 0 /\ Abs(f.m) <= Pow2(-f.x))

\* C19 as stated: every message handed to the counter address carries a
\* value in [-1.0, +1.0].
C19_CounterValueNormalised ==
    \A i \in 1..Len(sent) :
        sent[i].addr = MASK_COUNTER_PARAM => F32WithinOne(sent[i].args[1])

\* C20: whenever the loop waits in recv_from, data_len < 200 and
\* iteration_amount holds every completed cycle of the cumulative total; so
\* an avatar-change resynchronisation sends the counter value of a data_len
\* in [0, 199] with that iteration_amount.
C20_BelowCycleAtReceive ==
    LET total == (db_len - TotalCreated) + GrabsCreated
    IN  /\ pc = "recv" =>
             /\ data_len \in 0..(CycleLen - 1)
             /\ iteration_amount = total \div CycleLen
        /\ (pc = "check" /\ IsAvatarChange(packet)) =>
             /\ data_len \in 0..(CycleLen - 1)
             /\ iteration_amount = total \div CycleLen
             /\ sent = << CounterMessage(data_len),
                          IterationMessage(iteration_amount) >>

\* An avatar-change message has been answered after two rolled-over cycles
\* and a created grab record.
C20_Witness ==
    /\ pc = "check"
    /\ IsAvatarChange(packet)
    /\ iteration_amount = 2
    /\ GrabsCreated >= 1
    /\ data_len >= 2

\* ---------------------------------------------------------------------------
\* C21  Start-up.  Before the first datagram the store still holds its N
\* seeded records (pose and grab alike).  Entering the first rollover check
\* data_len = N and iteration_amount = 0 and nothing has been sent.  After
\* that check, still before the first receive, iteration_amount = N div 200
\* and data_len = N mod 200; exactly one packet, the iteration value
\* N div 200, has been sent when N >= 200, and none when N < 200.
StartupIterationSend ==
    IF db_len >= CycleLen
    THEN << IterationMessage(db_len \div CycleLen) >>
    ELSE << >>

C21_StartupSeeding ==
    /\ (received = 0 /\ pc = "check")
          => /\ data_len = db_len
             /\ iteration_amount = 0
             /\ sent = << >>
    /\ (received = 0 /\ (pc = "recv" \/ panic = "send_to"))
          => /\ iteration_amount = db_len \div CycleLen
             /\ data_len = db_len % CycleLen
             /\ sent = StartupIterationSend
    /\ (received = 0 /\ pc = "recv" /\ db_len < CycleLen)
          => /\ sent = << >>
             /\ data_len = db_len
             /\ iteration_amount = 0

C21_Witness ==
    /\ pc = "recv"
    /\ received = 0
    /\ db_len = 2 * CycleLen + 1
    /\ iteration_amount = 2
    /\ data_len = 1
    /\ sent = << IterationMessage(2) >>

\* ---------------------------------------------------------------------------
\* C22  The UI's mask_counter starts at the number of persisted records and
\* changes only by a delivered CounterUpdated event, which adds exactly 1.
\* The loop has published exactly one event per successful insert (pose or
\* grab) and none otherwise.  Hence mask_counter is the record count less the
\* events still undelivered: it equals the record count whenever nothing is
\* pending, and it never exceeds it.
SeededRecords == db_len - TotalCreated

PublishedPerInsert ==
    /\ published' - published = TotalCreated' - TotalCreated
    /\ published' - published = db_len' - db_len
    /\ published' - published \in {0, 1}
    /\ published' - published = chan' - chan + (mask_counter' - mask_counter)

DeliveryAddsOne ==
    mask_counter' # mask_counter
        => /\ mask_counter' = mask_counter + 1
           /\ chan' = chan - 1
           /\ published' = published

C22_MaskCounterTracksStore ==
    /\ [][PublishedPerInsert /\ DeliveryAddsOne]_vars
    /\ [](/\ published = TotalCreated
          /\ mask_counter = SeededRecords + (published - chan)
          /\ mask_counter <= db_len
          /\ (chan = 0 => mask_counter = db_len))

C22_Witness ==
    /\ chan = 0
    /\ published = 2
    /\ attempts > published
    /\ created["UpPosed"] + created["DownPosed"] >= 1
    /\ GrabsCreated >= 1
    /\ mask_counter = db_len

====
